---- MODULE Spec2Model ----
(***************************************************************************)
(* Model of ebay_inventory.py: get_stock and update_stock, two thin        *)
(* request/response operations against the eBay Inventory API.             *)
(*                                                                         *)
(* Text (Python str) is a sequence of chunks; a literal of the program is  *)
(* one chunk, caller- and service-supplied text is one chunk per           *)
(* character.  Python values are tagged records [t, v].                    *)
(***************************************************************************)
EXTENDS Integers, Sequences, FiniteSets, TLC

(* ------------------------------------------------------------------ *)
(* State                                                              *)
(* ------------------------------------------------------------------ *)
VARIABLES
    pc,       \* per caller: "idle", "get" / "put" (blocked in requests.get / .put), "done"
    call,     \* per caller: the invocation in progress and its arguments
    sent,     \* per caller: the requests the invocation has issued, in order
    reply,    \* per caller: what requests.get / requests.put gave back
    outcome,  \* per caller: what the invocation yielded to its caller
    stdout,   \* per caller: the lines the invocation printed
    remote,   \* the service's quantity per item address
    past,     \* history: how the latest finished invocation ended ("fresh" before any)
    prior     \* history, per caller: the value of past when the invocation began

vars == <<pc, call, sent, reply, outcome, stdout, remote, past, prior>>

(* ------------------------------------------------------------------ *)
(* Python values                                                      *)
(* ------------------------------------------------------------------ *)
PyNone == [t |-> "None", v |-> <<>>]
PyInt(n) == [t |-> "int", v |-> n]
PyFloat(tenths) == [t |-> "float", v |-> tenths]
PyStr(s) == [t |-> "str", v |-> s]
PyDict(f) == [t |-> "dict", v |-> f]

EmptyDict == PyDict(<<>>)

(* decimal digits of a natural number, most significant first *)
DigitChar(d) == <<"0", "1", "2", "3", "4", "5", "6", "7", "8", "9">>[d + 1]

RECURSIVE NatText(_)
NatText(n) == IF n < 10 THEN <<DigitChar(n)>> ELSE NatText(n \div 10) \o <<DigitChar(n % 10)>>

IntText(n) == IF n < 0 THEN <<"-">> \o NatText(0 - n) ELSE NatText(n)

(* str(x) as an f-string replacement field renders it *)
Format(x) ==
    CASE x.t = "str" -> x.v
      [] x.t = "None" -> <<"N", "o", "n", "e">>
      [] x.t = "int" -> IntText(x.v)
      [] x.t = "float" ->
            IF x.v < 0
            THEN <<"-">> \o NatText((0 - x.v) \div 10) \o <<".">> \o NatText((0 - x.v) % 10)
            ELSE NatText(x.v \div 10) \o <<".">> \o NatText(x.v % 10)
      [] OTHER -> <<"{", "}">>

(* ------------------------------------------------------------------ *)
(* Response.json(): decoding of the body text                         *)
(* ------------------------------------------------------------------ *)
Digits == {"0", "1", "2", "3", "4", "5", "6", "7", "8", "9"}

DigitVal(c) == CHOOSE d \in 0..9 : DigitChar(d) = c

JSONDecodeError == [type |-> "JSONDecodeError", msg |-> <<"Expecting value">>]

ParseFail == [ok |-> FALSE, val |-> PyNone, pos |-> 0]

Parsed(val, pos) == [ok |-> TRUE, val |-> val, pos |-> pos]

(* the characters of a string literal from position i up to the closing quote *)
RECURSIVE ScanString(_, _, _)
ScanString(s, i, acc) ==
    IF i > Len(s) THEN ParseFail
    ELSE IF s[i] = "\"" THEN Parsed(PyStr(acc), i + 1)
    ELSE ScanString(s, i + 1, Append(acc, s[i]))

(* a run of digits from position i, accumulated into n *)
RECURSIVE ScanDigits(_, _, _)
ScanDigits(s, i, n) ==
    IF i <= Len(s) /\ s[i] \in Digits
    THEN ScanDigits(s, i + 1, 10 * n + DigitVal(s[i]))
    ELSE Parsed(PyInt(n), i)

(* a number: an integer, or with a fraction a float (kept to tenths, the *)
(* precision of PyFloat)                                                 *)
ScanNumber(s, i) ==
    LET neg == s[i] = "-"
        j == IF neg THEN i + 1 ELSE i
    IN  IF j > Len(s) \/ s[j] \notin Digits THEN ParseFail
        ELSE LET r == ScanDigits(s, j, 0)
             IN  IF r.pos <= Len(s) /\ s[r.pos] = "."
                 THEN IF r.pos + 1 > Len(s) \/ s[r.pos + 1] \notin Digits THEN ParseFail
                      ELSE LET tenths == 10 * r.val.v + DigitVal(s[r.pos + 1])
                               rest == ScanDigits(s, r.pos + 2, 0)
                           IN  IF rest.val.v # 0 THEN ParseFail
                               ELSE Parsed(PyFloat(IF neg THEN 0 - tenths ELSE tenths), rest.pos)
                 ELSE Parsed(PyInt(IF neg THEN 0 - r.val.v ELSE r.val.v), r.pos)

RECURSIVE ScanValue(_, _)
RECURSIVE ScanMembers(_, _, _)

(* the members of an object after its opening brace: "key": value, ... } *)
ScanMembers(s, i, acc) ==
    IF i > Len(s) \/ s[i] # "\"" THEN ParseFail
    ELSE LET k == ScanString(s, i + 1, <<>>)
         IN  IF ~k.ok \/ k.pos > Len(s) \/ s[k.pos] # ":" THEN ParseFail
             ELSE LET x == ScanValue(s, k.pos + 1)
                      f == (k.val.v :> x.val) @@ acc
                  IN  IF ~x.ok \/ x.pos > Len(s) THEN ParseFail
                      ELSE IF s[x.pos] = "}" THEN Parsed(PyDict(f), x.pos + 1)
                      ELSE IF s[x.pos] = "," THEN ScanMembers(s, x.pos + 1, f)
                      ELSE ParseFail

ScanValue(s, i) ==
    IF i > Len(s) THEN ParseFail
    ELSE IF s[i] = "{"
         THEN IF i + 1 <= Len(s) /\ s[i + 1] = "}"
              THEN Parsed(EmptyDict, i + 2)
              ELSE ScanMembers(s, i + 1, <<>>)
    ELSE IF s[i] = "\"" THEN ScanString(s, i + 1, <<>>)
    ELSE IF s[i] = "-" \/ s[i] \in Digits THEN ScanNumber(s, i)
    ELSE IF i + 3 <= Len(s) /\ SubSeq(s, i, i + 3) = <<"n", "u", "l", "l">>
         THEN Parsed(PyNone, i + 4)
    ELSE ParseFail

(* json.loads(text): the decoded value, or the decoder's error *)
JsonDecode(text) ==
    LET r == ScanValue(text, 1)
    IN  IF r.ok /\ r.pos = Len(text) + 1
        THEN [ok |-> TRUE, val |-> r.val, err |-> JSONDecodeError]
        ELSE [ok |-> FALSE, val |-> PyNone, err |-> JSONDecodeError]

(* ------------------------------------------------------------------ *)
(* Requests, replies, outcomes                                        *)
(* ------------------------------------------------------------------ *)
ACCESS_TOKEN == <<"YOUR_EBAY_ACCESS_TOKEN">>

BaseUrl == <<"https://api.ebay.com/sell/inventory/v1/inventory_item/">>

HTTP_OK == 200

HTTP_NO_CONTENT == 204

NoJson == [t |-> "absent", v |-> <<>>]

NoExc == [type |-> "", msg |-> <<>>]

NoReply == [kind |-> "none", status_code |-> 0, text |-> <<>>, exc |-> NoExc]

Response(status, text) == [kind |-> "response", status_code |-> status, text |-> text, exc |-> NoExc]

Fault(exc) == [kind |-> "fault", status_code |-> 0, text |-> <<>>, exc |-> exc]

NoOutcome == [kind |-> "none", value |-> PyNone, exc |-> NoExc]

Return(value) == [kind |-> "return", value |-> value, exc |-> NoExc]

Raise(exc) == [kind |-> "raise", value |-> PyNone, exc |-> exc]

Exception(msg) == [type |-> "Exception", msg |-> msg]

NoCall == [op |-> "none", item_id |-> PyNone, quantity |-> PyNone]

(* variant: the identifier is percent-quoted before it is embedded *)
ItemUrlQuoted(item_id) ==
    BaseUrl \o [k \in 1..Len(Format(item_id)) |->
                    IF Format(item_id)[k] = "%" THEN "%25" ELSE Format(item_id)[k]]

(* the url f-string of both operations *)
ItemUrl(item_id) == BaseUrl \o Format(item_id)

(* variant: the token without its scheme *)
HeadersBare ==
    ("Authorization" :> ACCESS_TOKEN) @@ ("Content-Type" :> <<"application/json">>)

Headers ==
    ("Authorization" :> (<<"Bearer ">> \o ACCESS_TOKEN)) @@ ("Content-Type" :> <<"application/json">>)

(* variant: the read is sent as a write of a quantity *)
GetStockRequestAsPut(item_id) ==
    [method |-> "PUT", url |-> ItemUrl(item_id), headers |-> Headers,
     json |-> PyDict(<<"availability">> :>
                PyDict(<<"ship_to_location_availability">> :>
                    PyDict(<<"quantity">> :> PyInt(1))))]

(* get_stock up to its requests.get call: the request it issues *)
GetStockRequest(item_id) ==
    [method |-> "GET", url |-> ItemUrl(item_id), headers |-> Headers, json |-> NoJson]

(* variant: the quantity passed through int() *)
UpdateStockDataInt(quantity) ==
    PyDict(<<"availability">> :>
        PyDict(<<"ship_to_location_availability">> :>
            PyDict(<<"quantity">> :>
                IF quantity.t = "float" THEN PyInt(quantity.v \div 10) ELSE quantity)))

(* the data dict of update_stock *)
UpdateStockData(quantity) ==
    PyDict(<<"availability">> :>
        PyDict(<<"ship_to_location_availability">> :>
            PyDict(<<"quantity">> :> quantity)))

(* update_stock up to its requests.put call: the request it issues *)
UpdateStockRequest(item_id, quantity) ==
    [method |-> "PUT", url |-> ItemUrl(item_id), headers |-> Headers,
     json |-> UpdateStockData(quantity)]

(* the requests an invocation has issued once it issues request r *)
Issue(log, r) == Append(log, r)

(* variant: the decoded body is checked for its availability field *)
GetStockResultChecked(response) ==
    IF response.kind = "fault" THEN Raise(response.exc)
    ELSE IF response.status_code = HTTP_OK
         THEN LET d == JsonDecode(response.text)
              IN  IF ~d.ok THEN Raise(d.err)
                  ELSE IF d.val.t = "dict" /\ <<"a", "v", "a", "i", "l", "a", "b", "i", "l", "i", "t", "y">> \in DOMAIN d.val.v
                       THEN Return(d.val)
                  ELSE Raise([type |-> "KeyError", msg |-> <<"availability">>])
    ELSE Raise(Exception(<<"Error fetching stock: ">> \o response.text))

(* variant: failures from below are caught and re-raised as the operation's own *)
GetStockResultWrapped(response) ==
    IF response.kind = "fault"
    THEN Raise(Exception(<<"Error fetching stock: ">> \o response.exc.msg))
    ELSE IF response.status_code = HTTP_OK
         THEN LET d == JsonDecode(response.text)
              IN  IF d.ok THEN Return(d.val)
                  ELSE Raise(Exception(<<"Error fetching stock: ">> \o d.err.msg))
    ELSE Raise(Exception(<<"Error fetching stock: ">> \o response.text))

(* variant: once an invocation has failed, later reads fail without looking *)
GetStockResultBreaker(response) ==
    IF past = "raise" THEN Raise(Exception(<<"Error fetching stock: ">>))
    ELSE IF response.kind = "fault" THEN Raise(response.exc)
    ELSE IF response.status_code = HTTP_OK
         THEN LET d == JsonDecode(response.text)
              IN  IF d.ok THEN Return(d.val) ELSE Raise(d.err)
    ELSE Raise(Exception(<<"Error fetching stock: ">> \o response.text))

(* variant: a 404 answer raises a failure of its own kind *)
GetStockResultByStatus(response) ==
    IF response.kind = "fault" THEN Raise(response.exc)
    ELSE IF response.status_code = HTTP_OK
         THEN LET d == JsonDecode(response.text)
              IN  IF d.ok THEN Return(d.val) ELSE Raise(d.err)
    ELSE IF response.status_code = 404
         THEN Raise([type |-> "LookupError", msg |-> <<"Error fetching stock: ">> \o response.text])
    ELSE Raise(Exception(<<"Error fetching stock: ">> \o response.text))

(* variant: every 2xx status is taken as success *)
GetStockResultAny2xx(response) ==
    IF response.kind = "fault" THEN Raise(response.exc)
    ELSE IF response.status_code \div 100 = 2
         THEN LET d == JsonDecode(response.text)
              IN  IF d.ok THEN Return(d.val) ELSE Raise(d.err)
    ELSE Raise(Exception(<<"Error fetching stock: ">> \o response.text))

(* variant: the body is decoded before the status is looked at *)
GetStockResultDecodeFirst(response) ==
    IF response.kind = "fault" THEN Raise(response.exc)
    ELSE LET d == JsonDecode(response.text)
         IN  IF ~d.ok THEN Raise(d.err)
             ELSE IF response.status_code = HTTP_OK THEN Return(d.val)
             ELSE Raise(Exception(<<"Error fetching stock: ">> \o response.text))

(* get_stock from the return of requests.get: what the call yields *)
GetStockResult(response) ==
    IF response.kind = "fault" THEN Raise(response.exc)
    ELSE IF response.status_code = HTTP_OK
         THEN LET d == JsonDecode(response.text)
              IN  IF d.ok THEN Return(d.val) ELSE Raise(d.err)
    ELSE Raise(Exception(<<"Error fetching stock: ">> \o response.text))

(* variant: the acknowledgment is printed before the status is looked at *)
UpdateStockResultPrintFirst(response) ==
    IF response.kind = "fault" THEN [outcome |-> Raise(response.exc), printed |-> <<>>]
    ELSE IF response.status_code = HTTP_OK \/ response.status_code = HTTP_NO_CONTENT
         THEN [outcome |-> Return(PyNone), printed |-> <<"Stock updated successfully!">>]
    ELSE [outcome |-> Raise(Exception(<<"Error updating stock: ">> \o response.text)),
          printed |-> <<"Stock updated successfully!">>]

(* variant: only 200 is taken as success *)
UpdateStockResultOnly200(response) ==
    IF response.kind = "fault" THEN [outcome |-> Raise(response.exc), printed |-> <<>>]
    ELSE IF response.status_code = HTTP_OK
         THEN [outcome |-> Return(PyNone), printed |-> <<"Stock updated successfully!">>]
    ELSE [outcome |-> Raise(Exception(<<"Error updating stock: ">> \o response.text)),
          printed |-> <<>>]

(* variant: the message reports the status instead of the body text *)
UpdateStockResultStatusOnly(response) ==
    IF response.kind = "fault" THEN [outcome |-> Raise(response.exc), printed |-> <<>>]
    ELSE IF response.status_code = HTTP_OK \/ response.status_code = HTTP_NO_CONTENT
         THEN [outcome |-> Return(PyNone), printed |-> <<"Stock updated successfully!">>]
    ELSE [outcome |-> Raise(Exception(<<"Error updating stock: ">> \o IntText(response.status_code))),
          printed |-> <<>>]

(* update_stock from the return of requests.put: what the call yields  *)
(* and what it prints                                                  *)
UpdateStockResult(response) ==
    IF response.kind = "fault" THEN [outcome |-> Raise(response.exc), printed |-> <<>>]
    ELSE IF response.status_code = HTTP_OK \/ response.status_code = HTTP_NO_CONTENT
         THEN [outcome |-> Return(PyNone), printed |-> <<"Stock updated successfully!">>]
    ELSE [outcome |-> Raise(Exception(<<"Error updating stock: ">> \o response.text)),
          printed |-> <<>>]

(* ------------------------------------------------------------------ *)
(* Inputs: callers' arguments and the service's answers               *)
(* ------------------------------------------------------------------ *)
MaxQuantity == 1

Callers == {"c1", "c2"}

ItemIds == {PyStr(<<"%", "&">>), PyStr(<<>>), PyNone}

Quantities == {PyInt(n) : n \in -1..MaxQuantity} \cup {PyFloat(105), PyNone}

Statuses == {200, 201, 204, 404, 500}

(* {"sku":"A1","availability":{"quantity":10}} *)
RecordText ==
    <<"{", "\"", "s", "k", "u", "\"", ":", "\"", "A", "1", "\"", ",", "\"", "a", "v", "a", "i", "l", "a", "b", "i", "l", "i", "t", "y", "\"", ":", "{", "\"", "q", "u", "a", "n", "t", "i", "t", "y", "\"", ":", "1", "0", "}", "}">>

(* {"sku":"A1"} *)
PartialText == <<"{", "\"", "s", "k", "u", "\"", ":", "\"", "A", "1", "\"", "}">>

(* {"sku": *)
TruncatedText == <<"{", "\"", "s", "k", "u", "\"", ":">>

(* Item not found *)
ErrorText == <<"I", "t", "e", "m", " ", "n", "o", "t", " ", "f", "o", "u", "n", "d">>

Texts == {RecordText, PartialText, TruncatedText, ErrorText, <<"{", "}">>, <<>>}

Faults ==
    {[type |-> "Timeout", msg |-> <<"Request timeout">>],
     [type |-> "ConnectionError", msg |-> <<"Connection failed">>]}

Urls == {ItemUrl(i) : i \in ItemIds}

InitialQuantity == PyInt(0)

Init ==
    /\ pc = [p \in Callers |-> "idle"]
    /\ call = [p \in Callers |-> NoCall]
    /\ sent = [p \in Callers |-> <<>>]
    /\ reply = [p \in Callers |-> NoReply]
    /\ outcome = [p \in Callers |-> NoOutcome]
    /\ stdout = [p \in Callers |-> <<>>]
    /\ remote = [u \in Urls |-> InitialQuantity]
    /\ past = "fresh"
    /\ prior = [p \in Callers |-> "fresh"]

(* the JSON text of a value, as the service writes it *)
JsonText(x) ==
    CASE x.t = "None" -> <<"n", "u", "l", "l">>
      [] x.t = "str" -> <<"\"">> \o x.v \o <<"\"">>
      [] OTHER -> Format(x)

(* the record the service returns for a quantity: {"quantity":<quantity>} *)
StockText(quantity) ==
    <<"{", "\"", "q", "u", "a", "n", "t", "i", "t", "y", "\"", ":">> \o JsonText(quantity) \o <<"}">>

(* the service's quantities after it answers a request with this status: *)
(* a PUT it accepts sets the quantity of the addressed item               *)
ServiceApply(store, request, status) ==
    IF request.method = "PUT" /\ status \in {200, 204}
    THEN [store EXCEPT ![request.url] = request.json.v[<<"availability">>].v[<<"ship_to_location_availability">>].v[<<"quantity">>]]
    ELSE store

(* variant: a read waits while a write for the same item is in flight *)
CallGetStockLocked(p, item_id) ==
    /\ pc[p] = "idle"
    /\ \A q \in Callers \ {p} : ~(pc[q] = "put" /\ call[q].item_id = item_id)
    /\ pc' = [pc EXCEPT ![p] = "get"]
    /\ call' = [call EXCEPT ![p] = [op |-> "get_stock", item_id |-> item_id, quantity |-> PyNone]]
    /\ sent' = [sent EXCEPT ![p] = Issue(sent[p], GetStockRequest(item_id))]
    /\ prior' = [prior EXCEPT ![p] = past]
    /\ UNCHANGED <<reply, outcome, stdout, remote, past>>

(* get_stock(item_id) runs to its requests.get call *)
CallGetStock(p, item_id) ==
    /\ pc[p] = "idle"
    /\ pc' = [pc EXCEPT ![p] = "get"]
    /\ call' = [call EXCEPT ![p] = [op |-> "get_stock", item_id |-> item_id, quantity |-> PyNone]]
    /\ sent' = [sent EXCEPT ![p] = Issue(sent[p], GetStockRequest(item_id))]
    /\ prior' = [prior EXCEPT ![p] = past]
    /\ UNCHANGED <<reply, outcome, stdout, remote, past>>

(* variant: a quantity that is not a non-negative number is refused before any request *)
CallUpdateStockValidated(p, item_id, quantity) ==
    /\ pc[p] = "idle"
    /\ call' = [call EXCEPT ![p] = [op |-> "update_stock", item_id |-> item_id, quantity |-> quantity]]
    /\ prior' = [prior EXCEPT ![p] = past]
    /\ IF quantity.t \in {"int", "float"} /\ quantity.v >= 0
       THEN /\ pc' = [pc EXCEPT ![p] = "put"]
            /\ sent' = [sent EXCEPT ![p] = Issue(sent[p], UpdateStockRequest(item_id, quantity))]
            /\ UNCHANGED <<reply, outcome, stdout, remote, past>>
       ELSE /\ pc' = [pc EXCEPT ![p] = "done"]
            /\ outcome' = [outcome EXCEPT ![p] = Raise([type |-> "ValueError", msg |-> <<"invalid quantity">>])]
            /\ past' = "raise"
            /\ UNCHANGED <<sent, reply, stdout, remote>>

(* update_stock(item_id, quantity) runs to its requests.put call *)
CallUpdateStock(p, item_id, quantity) ==
    /\ pc[p] = "idle"
    /\ pc' = [pc EXCEPT ![p] = "put"]
    /\ call' = [call EXCEPT ![p] = [op |-> "update_stock", item_id |-> item_id, quantity |-> quantity]]
    /\ sent' = [sent EXCEPT ![p] = Issue(sent[p], UpdateStockRequest(item_id, quantity))]
    /\ prior' = [prior EXCEPT ![p] = past]
    /\ UNCHANGED <<reply, outcome, stdout, remote, past>>

(* variant: a non-success answer is retried once *)
GetStockResponseRetry(p, status, text) ==
    /\ pc[p] = "get"
    /\ IF status # HTTP_OK /\ Len(sent[p]) < 2
       THEN /\ sent' = [sent EXCEPT ![p] = Issue(sent[p], GetStockRequest(call[p].item_id))]
            /\ UNCHANGED <<pc, call, reply, outcome, stdout, remote, past, prior>>
       ELSE /\ pc' = [pc EXCEPT ![p] = "done"]
            /\ reply' = [reply EXCEPT ![p] = Response(status, text)]
            /\ outcome' = [outcome EXCEPT ![p] = GetStockResult(Response(status, text))]
            /\ past' = outcome'[p].kind
            /\ UNCHANGED <<call, sent, stdout, remote, prior>>

(* variant: an answer other than 200 is noted and the read keeps waiting *)
GetStockResponseAwaitOk(p, status, text) ==
    /\ pc[p] = "get"
    /\ IF status # HTTP_OK
       THEN /\ reply' = [reply EXCEPT ![p] = Response(status, text)]
            /\ UNCHANGED <<pc, call, sent, outcome, stdout, remote, past, prior>>
       ELSE /\ pc' = [pc EXCEPT ![p] = "done"]
            /\ reply' = [reply EXCEPT ![p] = Response(status, text)]
            /\ outcome' = [outcome EXCEPT ![p] = GetStockResult(Response(status, text))]
            /\ remote' = ServiceApply(remote, sent[p][Len(sent[p])], status)
            /\ past' = outcome'[p].kind
            /\ UNCHANGED <<call, sent, stdout, prior>>

(* the service answers the GET; get_stock runs from there to its end *)
GetStockResponse(p, status, text) ==
    /\ pc[p] = "get"
    /\ pc' = [pc EXCEPT ![p] = "done"]
    /\ reply' = [reply EXCEPT ![p] = Response(status, text)]
    /\ outcome' = [outcome EXCEPT ![p] = GetStockResult(Response(status, text))]
    /\ remote' = ServiceApply(remote, sent[p][Len(sent[p])], status)
    /\ past' = outcome'[p].kind
    /\ UNCHANGED <<call, sent, stdout, prior>>

(* the service answers the GET with status 200 and the quantity it holds *)
(* for the address at that moment                                        *)
GetStockServed(p) ==
    /\ pc[p] = "get"
    /\ GetStockResponse(p, 200, StockText(remote[sent[p][Len(sent[p])].url]))

(* requests.get raises; get_stock has no handler *)
GetStockFault(p, exc) ==
    /\ pc[p] = "get"
    /\ pc' = [pc EXCEPT ![p] = "done"]
    /\ reply' = [reply EXCEPT ![p] = Fault(exc)]
    /\ outcome' = [outcome EXCEPT ![p] = GetStockResult(Fault(exc))]
    /\ past' = outcome'[p].kind
    /\ UNCHANGED <<call, sent, stdout, remote, prior>>

(* the service answers the PUT; update_stock runs from there to its end *)
UpdateStockResponse(p, status, text) ==
    /\ pc[p] = "put"
    /\ pc' = [pc EXCEPT ![p] = "done"]
    /\ reply' = [reply EXCEPT ![p] = Response(status, text)]
    /\ outcome' = [outcome EXCEPT ![p] = UpdateStockResult(Response(status, text)).outcome]
    /\ stdout' = [stdout EXCEPT ![p] = stdout[p] \o UpdateStockResult(Response(status, text)).printed]
    /\ remote' = ServiceApply(remote, sent[p][Len(sent[p])], status)
    /\ past' = outcome'[p].kind
    /\ UNCHANGED <<call, sent, prior>>

(* requests.put raises; update_stock has no handler.  The write may or  *)
(* may not have reached the service before the transport failed.        *)
UpdateStockFault(p, exc, applied) ==
    /\ pc[p] = "put"
    /\ pc' = [pc EXCEPT ![p] = "done"]
    /\ reply' = [reply EXCEPT ![p] = Fault(exc)]
    /\ outcome' = [outcome EXCEPT ![p] = UpdateStockResult(Fault(exc)).outcome]
    /\ stdout' = [stdout EXCEPT ![p] = stdout[p] \o UpdateStockResult(Fault(exc)).printed]
    /\ remote' = IF applied THEN ServiceApply(remote, sent[p][Len(sent[p])], 200) ELSE remote
    /\ past' = outcome'[p].kind
    /\ UNCHANGED <<call, sent, prior>>

(* the caller takes the outcome; nothing of the invocation is kept *)
Finish(p) ==
    /\ pc[p] = "done"
    /\ pc' = [pc EXCEPT ![p] = "idle"]
    /\ call' = [call EXCEPT ![p] = NoCall]
    /\ sent' = [sent EXCEPT ![p] = <<>>]
    /\ reply' = [reply EXCEPT ![p] = NoReply]
    /\ outcome' = [outcome EXCEPT ![p] = NoOutcome]
    /\ stdout' = [stdout EXCEPT ![p] = <<>>]
    /\ prior' = [prior EXCEPT ![p] = "fresh"]
    /\ UNCHANGED <<remote, past>>

(* one caller issuing calls one after the other *)
Next ==
    \/ \E i \in ItemIds : CallGetStock("c1", i)
    \/ \E i \in ItemIds, q \in Quantities : CallUpdateStock("c1", i, q)
    \/ \E s \in Statuses, t \in Texts : GetStockResponse("c1", s, t)
    \/ GetStockServed("c1")
    \/ \E e \in Faults : GetStockFault("c1", e)
    \/ \E s \in Statuses, t \in Texts : UpdateStockResponse("c1", s, t)
    \/ \E e \in Faults, a \in BOOLEAN : UpdateStockFault("c1", e, a)
    \/ Finish("c1")

Spec == Init /\ [][Next]_vars

(* requests.get / requests.put comes back to caller p, with an answer or *)
(* with a transport failure                                              *)
ComesBack(p) ==
    \/ \E s \in Statuses, t \in Texts : GetStockResponse(p, s, t)
    \/ GetStockServed(p)
    \/ \E e \in Faults : GetStockFault(p, e)
    \/ \E s \in Statuses, t \in Texts : UpdateStockResponse(p, s, t)
    \/ \E e \in Faults, a \in BOOLEAN : UpdateStockFault(p, e, a)

(* the one caller, with every blocking call coming back in the end *)
SpecLive == Spec /\ WF_vars(ComesBack("c1"))

(* two callers with calls in flight together, over fewer inputs *)
PairItemIds == {PyStr(<<"%", "&">>), PyNone}

PairQuantities == {PyInt(0), PyFloat(105)}

PairStatuses == {200, 204, 404, 500}

PairTexts == {PartialText, ErrorText}

NextPair ==
    \/ \E p \in Callers, i \in PairItemIds : CallGetStock(p, i)
    \/ \E p \in Callers, i \in PairItemIds, q \in PairQuantities : CallUpdateStock(p, i, q)
    \/ \E p \in Callers, s \in PairStatuses, t \in PairTexts : GetStockResponse(p, s, t)
    \/ \E p \in Callers : GetStockServed(p)
    \/ \E p \in Callers, e \in Faults : GetStockFault(p, e)
    \/ \E p \in Callers, s \in PairStatuses, t \in PairTexts : UpdateStockResponse(p, s, t)
    \/ \E p \in Callers, e \in Faults, a \in BOOLEAN : UpdateStockFault(p, e, a)
    \/ \E p \in Callers : Finish(p)

SpecPair == Init /\ [][NextPair]_vars

(* ------------------------------------------------------------------ *)
(* Properties                                                         *)
(* ------------------------------------------------------------------ *)
Contains(s, t) == \E i \in 1..(Len(s) - Len(t) + 1) : SubSeq(s, i, i + Len(t) - 1) = t

DoneGet(p) == pc[p] = "done" /\ call[p].op = "get_stock"

DoneUpdate(p) == pc[p] = "done" /\ call[p].op = "update_stock"

Answered(p) == reply[p].kind = "response"

SuccessLine == <<"Stock updated successfully!">>

SkuOnly == PyDict(<<"s", "k", "u">> :> PyStr(<<"A", "1">>))

(* C1: a get_stock whose request is answered with status 200 and a body *)
(* that decodes to B returns exactly B: same fields, same values, for   *)
(* every item identifier and whatever the shape of B.                   *)
C1_ReadReturnsBody ==
    \A p \in Callers :
        (DoneGet(p) /\ Answered(p) /\ reply[p].status_code = 200 /\ JsonDecode(reply[p].text).ok)
            => /\ outcome[p].kind = "return"
               /\ outcome[p].value = JsonDecode(reply[p].text).val
               /\ (reply[p].text = PartialText => outcome[p].value = SkuOnly)
               /\ (reply[p].text = <<"{", "}">> => outcome[p].value = EmptyDict)

(* a 200 answer whose body lacks the availability field is returned as it is *)
C1_Witness ==
    \E p \in Callers :
        /\ DoneGet(p) /\ Answered(p) /\ reply[p].status_code = 200
        /\ reply[p].text = PartialText
        /\ call[p].item_id = PyNone
        /\ outcome[p] = Return(SkuOnly)

(* C2: a get_stock answered with any status other than 200 (other 2xx   *)
(* included) and body text T yields no value and raises an Exception     *)
(* whose message is "Error fetching stock: " followed by T.             *)
C2_ReadFailureCarriesText ==
    \A p \in Callers :
        (DoneGet(p) /\ Answered(p) /\ reply[p].status_code # 200)
            => /\ outcome[p].kind = "raise"
               /\ outcome[p].exc.type = "Exception"
               /\ outcome[p].exc.msg = <<"Error fetching stock: ">> \o reply[p].text
               /\ Contains(outcome[p].exc.msg, reply[p].text)

(* a 204 answer with a decodable body is still a failure of the read *)
C2_Witness ==
    \E p \in Callers :
        /\ DoneGet(p) /\ Answered(p) /\ reply[p].status_code = 204
        /\ reply[p].text = PartialText
        /\ outcome[p].kind = "raise"
        /\ outcome[p].exc.msg = <<"Error fetching stock: ">> \o PartialText

(* C3: update_stock reports success (returns normally and prints the    *)
(* acknowledgment) exactly when the answer's status is 200 or 204.      *)
C3_WriteSuccessIff200Or204 ==
    \A p \in Callers :
        (DoneUpdate(p) /\ Answered(p))
            => ((outcome[p].kind = "return" /\ stdout[p] = SuccessLine)
                    <=> reply[p].status_code \in {200, 204})
               /\ (outcome[p].kind = "return" \/ stdout[p] # <<>>
                    => reply[p].status_code \in {200, 204})

(* a 204 answer is a success *)
C3_Witness ==
    \E p \in Callers :
        /\ DoneUpdate(p) /\ Answered(p) /\ reply[p].status_code = 204
        /\ outcome[p] = Return(PyNone)
        /\ stdout[p] = SuccessLine

(* C4: an update_stock answered with a status outside {200, 204} and    *)
(* body text T raises an Exception whose message is                     *)
(* "Error updating stock: " followed by T.                              *)
C4_WriteFailureCarriesText ==
    \A p \in Callers :
        (DoneUpdate(p) /\ Answered(p) /\ reply[p].status_code \notin {200, 204})
            => /\ outcome[p].kind = "raise"
               /\ outcome[p].exc.type = "Exception"
               /\ outcome[p].exc.msg = <<"Error updating stock: ">> \o reply[p].text
               /\ Contains(outcome[p].exc.msg, reply[p].text)

(* a 201 answer fails the write with the service's text *)
C4_Witness ==
    \E p \in Callers :
        /\ DoneUpdate(p) /\ Answered(p) /\ reply[p].status_code = 201
        /\ reply[p].text = ErrorText
        /\ outcome[p].exc.msg = <<"Error updating stock: ">> \o ErrorText

(* C5: the body of the request update_stock(i, q) sends has one field,  *)
(* availability, holding one field, ship_to_location_availability,      *)
(* holding one field, quantity, whose value is q as the caller gave it. *)
C5_BodyHoldsQuantity ==
    \A p \in Callers :
        call[p].op = "update_stock"
            => \A k \in 1..Len(sent[p]) :
                LET body == sent[p][k].json
                IN  /\ body.t = "dict"
                    /\ DOMAIN body.v = {<<"availability">>}
                    /\ body.v[<<"availability">>].t = "dict"
                    /\ DOMAIN body.v[<<"availability">>].v = {<<"ship_to_location_availability">>}
                    /\ body.v[<<"availability">>].v[<<"ship_to_location_availability">>].t = "dict"
                    /\ DOMAIN body.v[<<"availability">>].v[<<"ship_to_location_availability">>].v
                            = {<<"quantity">>}
                    /\ body.v[<<"availability">>].v[<<"ship_to_location_availability">>].v[<<"quantity">>]
                            = call[p].quantity

(* a non-integer quantity is in flight in the body, unchanged *)
C5_Witness ==
    \E p \in Callers :
        /\ pc[p] = "put"
        /\ call[p].quantity = PyFloat(105)
        /\ Len(sent[p]) = 1
        /\ sent[p][1].json.v[<<"availability">>].v[<<"ship_to_location_availability">>].v[<<"quantity">>]
                = PyFloat(105)

(* C6: every request issued, by either operation, carries the headers  *)
(* Authorization: Bearer <the configured token> and                     *)
(* Content-Type: application/json, and no others; the token is the one  *)
(* the module was configured with on every request.                     *)
C6_RequestsCarryCredential ==
    \A p \in Callers :
        \A k \in 1..Len(sent[p]) :
            /\ DOMAIN sent[p][k].headers = {"Authorization", "Content-Type"}
            /\ sent[p][k].headers["Authorization"] = <<"Bearer ">> \o ACCESS_TOKEN
            /\ sent[p][k].headers["Authorization"] = <<"Bearer ", "YOUR_EBAY_ACCESS_TOKEN">>
            /\ sent[p][k].headers["Content-Type"] = <<"application/json">>

(* a write following a finished call is in flight with the credential *)
C6_Witness ==
    \E p \in Callers :
        /\ pc[p] = "put"
        /\ prior[p] # "fresh"
        /\ sent[p][1].headers["Authorization"] = <<"Bearer ", "YOUR_EBAY_ACCESS_TOKEN">>

(* the identifier as text: a string is itself, None reads "None" *)
IdText(item_id) == IF item_id.t = "str" THEN item_id.v ELSE <<"N", "o", "n", "e">>

(* C7: get_stock(i) issues a GET and update_stock(i, q) a PUT, both to  *)
(* the base path https://api.ebay.com/sell/inventory/v1/inventory_item/ *)
(* followed by i character for character.                               *)
C7_AddressIsBasePlusId ==
    \A p \in Callers :
        \A k \in 1..Len(sent[p]) :
            /\ sent[p][k].url
                    = <<"https://api.ebay.com/sell/inventory/v1/inventory_item/">> \o IdText(call[p].item_id)
            /\ call[p].op = "get_stock" => sent[p][k].method = "GET"
            /\ call[p].op = "update_stock" => sent[p][k].method = "PUT"

(* an identifier of URL-special characters is embedded as given *)
C7_Witness ==
    \E p \in Callers :
        /\ pc[p] = "get"
        /\ call[p].item_id = PyStr(<<"%", "&">>)
        /\ sent[p][1].method = "GET"
        /\ sent[p][1].url = <<"https://api.ebay.com/sell/inventory/v1/inventory_item/", "%", "&">>

(* C8: a transport failure of either operation, and a decode failure of *)
(* a 200 body in get_stock, reaches the caller as the very exception    *)
(* the layer below raised (never the operation's own Exception); the    *)
(* call has issued one request, yields no value and prints nothing.     *)
C8_LowerFailuresPropagate ==
    \A p \in Callers :
        /\ (pc[p] = "done" /\ reply[p].kind = "fault")
                => /\ outcome[p] = Raise(reply[p].exc)
                   /\ outcome[p].exc \in Faults
                   /\ Len(sent[p]) = 1
                   /\ stdout[p] = <<>>
        /\ (DoneGet(p) /\ Answered(p) /\ reply[p].status_code = 200 /\ ~JsonDecode(reply[p].text).ok)
                => /\ outcome[p] = Raise(JsonDecode(reply[p].text).err)
                   /\ outcome[p].exc.type = "JSONDecodeError"
                   /\ Len(sent[p]) = 1
                   /\ stdout[p] = <<>>

(* a truncated 200 body surfaces as the decoder's error *)
C8_Witness ==
    \E p \in Callers :
        /\ DoneGet(p) /\ Answered(p) /\ reply[p].status_code = 200
        /\ reply[p].text = TruncatedText
        /\ outcome[p].kind = "raise"
        /\ outcome[p].exc.type = "JSONDecodeError"

(* C9: an invocation has issued exactly one request from the moment it  *)
(* blocks on the service to its end, whatever the outcome; a caller     *)
(* between invocations has issued none.                                 *)
C9_OneRequestPerCall ==
    \A p \in Callers :
        /\ pc[p] = "idle" => Len(sent[p]) = 0
        /\ pc[p] \in {"get", "put", "done"} => Len(sent[p]) = 1

(* a read that failed on a 500 answer ends with its one request *)
C9_Witness ==
    \E p \in Callers :
        /\ DoneGet(p) /\ Answered(p) /\ reply[p].status_code = 500
        /\ outcome[p].kind = "raise"
        /\ Len(sent[p]) = 1

(* C10: two invocations with the same arguments whose requests get the  *)
(* same answer issue the same request, yield the same outcome and print *)
(* the same lines, whatever was called before either of them.           *)
C10_NoStateAcrossCalls ==
    \A p, q \in Callers :
        (pc[p] = "done" /\ pc[q] = "done" /\ call[p] = call[q] /\ reply[p] = reply[q])
            => /\ outcome[p] = outcome[q]
               /\ sent[p] = sent[q]
               /\ stdout[p] = stdout[q]

(* a read begun after a failed call, answered like the first read of the *)
(* run, ends like it                                                     *)
C10_Witness ==
    \E p, q \in Callers :
        /\ p # q
        /\ DoneGet(p) /\ DoneGet(q)
        /\ call[p] = call[q] /\ reply[p] = reply[q]
        /\ prior[p] = "fresh" /\ prior[q] = "raise"
        /\ outcome[q].kind = "return"
        /\ outcome[p] = outcome[q]

(* the answer is a service-reported failure of the operation in progress *)
Rejected(p) ==
    /\ pc[p] = "done"
    /\ Answered(p)
    /\ IF call[p].op = "get_stock"
       THEN reply[p].status_code # 200
       ELSE reply[p].status_code \notin {200, 204}

(* C11: two invocations of one operation, both answered with a          *)
(* non-success status and the same body text, raise the same failure:   *)
(* same kind, same message, whatever the two statuses are.              *)
C11_FailureNotCategorized ==
    \A p, q \in Callers :
        (Rejected(p) /\ Rejected(q) /\ call[p].op = call[q].op /\ reply[p].text = reply[q].text)
            => /\ outcome[p].kind = "raise"
               /\ outcome[p] = outcome[q]

(* a 404 and a 500 with the same text fail two reads identically *)
C11_Witness ==
    \E p, q \in Callers :
        /\ DoneGet(p) /\ DoneGet(q)
        /\ Answered(p) /\ Answered(q)
        /\ reply[p].status_code = 404 /\ reply[q].status_code = 500
        /\ reply[p].text = ErrorText /\ reply[q].text = ErrorText
        /\ outcome[p] = outcome[q]
        /\ outcome[p].exc = Exception(<<"Error fetching stock: ">> \o ErrorText)

(* the status is a success status of the operation in progress *)
SuccessStatus(p) ==
    IF call[p].op = "get_stock"
    THEN reply[p].status_code = 200
    ELSE reply[p].status_code \in {200, 204}

C13_AckOnlyOnSuccess ==
    \A p \in Callers :
        /\ pc[p] = "put" => stdout[p] = <<>>
        /\ DoneUpdate(p)
            => IF Answered(p) /\ reply[p].status_code \in {200, 204}
               THEN /\ outcome[p] = Return(PyNone)
                    /\ Len(stdout[p]) = 1
                    /\ stdout[p][1] = "Stock updated successfully!"
               ELSE /\ outcome[p].kind = "raise"
                    /\ stdout[p] = <<>>

(* a write answered 200 has acknowledged once and returned None *)
C13_Witness ==
    \E p \in Callers :
        /\ DoneUpdate(p) /\ Answered(p) /\ reply[p].status_code = 200
        /\ call[p].quantity = PyFloat(105)
        /\ stdout[p] = <<"Stock updated successfully!">>
        /\ outcome[p].kind = "return" /\ outcome[p].value = PyNone

(* C14: a get_stock sends only a GET without a body and prints nothing, *)
(* and no step of a get_stock invocation changes the quantity the       *)
(* service holds for any item.                                          *)
C14_ReadOnly ==
    /\ [](\A p \in Callers :
            call[p].op = "get_stock"
                => /\ stdout[p] = <<>>
                   /\ \A k \in 1..Len(sent[p]) :
                        sent[p][k].method = "GET" /\ sent[p][k].json = NoJson)
    /\ [][\A p \in Callers :
            (pc'[p] # pc[p] /\ call'[p].op = "get_stock") => remote' = remote]_vars

(* a read of an item ends with the quantity an earlier write left there *)
C14_Witness ==
    \E p \in Callers :
        /\ DoneGet(p) /\ Answered(p) /\ reply[p].status_code = 200
        /\ remote[sent[p][1].url] = PyFloat(105)
        /\ stdout[p] = <<>>
        /\ sent[p][1].method = "GET"

(* C15: calls are not coordinated.  Whatever the other caller has in    *)
(* flight, an idle caller can begin a read or a write of any item, a    *)
(* read in flight can be answered and a write in flight can be          *)
(* answered: with a read and a write of one item in flight together     *)
(* either may be served first.                                          *)
C15_CallsUncoordinated ==
    \A p \in Callers :
        /\ pc[p] = "idle"
            => \A i \in PairItemIds :
                /\ ENABLED CallGetStock(p, i)
                /\ \A q \in PairQuantities : ENABLED CallUpdateStock(p, i, q)
        /\ pc[p] = "get" => ENABLED GetStockResponse(p, 200, <<"{", "}">>)
        /\ pc[p] = "put" => ENABLED UpdateStockResponse(p, 200, <<>>)

(* a read and a write of one item, both begun before any call finished: *)
(* the read returned the quantity from before the write, which the      *)
(* service has applied since                                            *)
C15_Witness ==
    \E p, q \in Callers :
        /\ p # q
        /\ DoneGet(p) /\ DoneUpdate(q)
        /\ prior[p] = "fresh" /\ prior[q] = "fresh"
        /\ call[p].item_id = call[q].item_id
        /\ call[q].quantity = PyFloat(105)
        /\ outcome[q].kind = "return"
        /\ outcome[p] = Return(PyDict(<<"q", "u", "a", "n", "t", "i", "t", "y">> :> InitialQuantity))
        /\ remote[sent[p][1].url] = PyFloat(105)

(* the invocation ended in success: a value returned, no exception, and *)
(* for a write the acknowledgment printed                                *)
Succeeded(p) ==
    /\ outcome[p].kind = "return"
    /\ outcome[p].exc = NoExc
    /\ call[p].op = "update_stock" => stdout[p] = SuccessLine

(* the invocation ended in failure: an exception, no value, nothing printed *)
Failed(p) ==
    /\ outcome[p].kind = "raise"
    /\ outcome[p].exc # NoExc
    /\ outcome[p].value = PyNone
    /\ stdout[p] = <<>>

(* C16: an invocation is blocked with no outcome, no answer and nothing *)
(* printed until requests comes back; its next step is its end; at its  *)
(* end it has succeeded or failed, never both and never neither; and,   *)
(* given that every blocking call comes back, a blocked invocation ends. *)
C16_SingleShot ==
    /\ [](\A p \in Callers :
            /\ pc[p] \in {"idle", "get", "put", "done"}
            /\ pc[p] \in {"get", "put"}
                => outcome[p] = NoOutcome /\ reply[p] = NoReply /\ stdout[p] = <<>>
            /\ pc[p] = "done"
                => (Succeeded(p) \/ Failed(p)) /\ ~(Succeeded(p) /\ Failed(p)))
    /\ [][\A p \in Callers :
            (pc[p] \in {"get", "put"} /\ pc'[p] # pc[p]) => pc'[p] = "done"]_vars
    /\ \A p \in Callers : (pc[p] \in {"get", "put"}) ~> (pc[p] = "done")

(* a write that was blocked has ended in failure on a transport fault *)
C16_Witness ==
    \E p \in Callers :
        /\ DoneUpdate(p)
        /\ reply[p].kind = "fault"
        /\ Failed(p) /\ ~Succeeded(p)

(* C17: a read answered with a status other than 200 raises the failure *)
(* the service reported, whatever the body, and never a decode failure;  *)
(* a read raises a decode failure only when answered 200 with a body     *)
(* that does not decode; a write never raises a decode failure, and one  *)
(* answered 204 succeeds whatever the body, the empty one included.      *)
C17_StatusCheckedBeforeDecode ==
    \A p \in Callers :
        /\ (DoneGet(p) /\ Answered(p) /\ reply[p].status_code # 200)
            => outcome[p] = Raise(Exception(<<"Error fetching stock: ">> \o reply[p].text))
        /\ (DoneGet(p) /\ outcome[p].kind = "raise" /\ outcome[p].exc.type = "JSONDecodeError")
            => /\ Answered(p)
               /\ reply[p].status_code = 200
               /\ ~JsonDecode(reply[p].text).ok
        /\ DoneUpdate(p)
            => /\ outcome[p].kind = "raise" => outcome[p].exc.type # "JSONDecodeError"
               /\ (Answered(p) /\ reply[p].status_code = 204)
                    => outcome[p] = Return(PyNone) /\ stdout[p] = SuccessLine

(* a read answered 404 with a body cut short has raised the service's failure *)
C17_Witness ==
    \E p \in Callers :
        /\ DoneGet(p)
        /\ Answered(p)
        /\ reply[p].status_code = 404
        /\ reply[p].text = TruncatedText
        /\ ~JsonDecode(reply[p].text).ok
        /\ outcome[p].kind = "raise"
        /\ outcome[p].exc.type = "Exception"

====
